---- MODULE Spec2Model ----
(***************************************************************************)
(* The Person/Address/Insurance/Pharmacy microservice of HW1-microservice: *)
(* four in-memory stores (Python dicts keyed by UUID) and, per resource,   *)
(* the create / list / get / partial-update handlers of main.py together   *)
(* with the pydantic schemas of models/insurance.py and models/pharmacy.py.*)
(***************************************************************************)
EXTENDS Integers, Sequences, FiniteSets, TLC

\* ---------------------------------------------------------------------------
\* Bounds of the model
\* ---------------------------------------------------------------------------
\* Records held by the four stores together.
MaxRecords == 2
\* Stores that hold records at one time.
MaxKinds == 1
\* Last reading of the clock (datetime.utcnow) the model lets time reach.
MaxTime == 1
\* Longest runs of letters and of digits in the texts tried as policy and
\* license numbers.
MaxLetters == 4
MaxDigits == 9
\* Worker threads that serve requests at the same time.
MaxThreads == 2
\* PATCH requests one thread serves, one after the other.
MaxPatches == 1

\* ---------------------------------------------------------------------------
\* Values
\* ---------------------------------------------------------------------------
\* Python None.
None == [tag |-> "none"]
\* A Python str; v is a string, or a sequence of characters where the code
\* looks inside the text.
S(x) == [tag |-> "str", v |-> x]
\* A datetime.date.
D(yy, mm, dd) == [tag |-> "date", y |-> yy, m |-> mm, d |-> dd]
\* A field the request body does not mention (pydantic: not in fields_set).
Unset == [tag |-> "unset"]

\* The characters of a text.
Lower ==
    {"a", "b", "c", "d", "e", "f", "g", "h", "i", "j", "k", "l", "m",
     "n", "o", "p", "q", "r", "s", "t", "u", "v", "w", "x", "y", "z"}
Digit == {"0", "1", "2", "3", "4", "5", "6", "7", "8", "9"}
DigitChar == <<"0", "1", "2", "3", "4", "5", "6", "7", "8", "9">>

\* The character of the last decimal digit of n.
Dig(n) == DigitChar[(n % 10) + 1]

\* str(date): date.isoformat(), YYYY-MM-DD with leading zeros.
DateIso(dt) ==
    << Dig(dt.y \div 1000), Dig(dt.y \div 100), Dig(dt.y \div 10), Dig(dt.y), "-",
       Dig(dt.m \div 10), Dig(dt.m), "-", Dig(dt.d \div 10), Dig(dt.d) >>

\* Python str(x) of an Optional[date]: str(None) is the text "None".
PyStr(x) == IF x.tag = "none" THEN <<"N", "o", "n", "e">> ELSE DateIso(x)

\* ---------------------------------------------------------------------------
\* Constrained strings (pydantic StringConstraints(pattern=...))
\* ---------------------------------------------------------------------------
\* A pattern is a sequence of items; an item is a character class repeated
\* between lo and hi times.  The patterns are anchored at both ends (^ ... $).
InClass(c, cls) ==
    CASE cls = "a-z" -> c \in Lower
      [] cls = "\\d" -> c \in Digit
      [] OTHER -> FALSE

\* The run of characters of class cls in s that starts at position i.
RECURSIVE RunLength(_, _, _)
RunLength(s, i, cls) ==
    IF i <= Len(s) /\ InClass(s[i], cls) THEN 1 + RunLength(s, i + 1, cls) ELSE 0

\* Backtracking match of the items from[k..] against s[i..], to the end of s.
RECURSIVE MatchItems(_, _, _, _)
MatchItems(pat, k, s, i) ==
    IF k > Len(pat) THEN i = Len(s) + 1
    ELSE \E n \in pat[k].lo .. pat[k].hi :
            /\ n <= RunLength(s, i, pat[k].cls)
            /\ MatchItems(pat, k + 1, s, i + n)

FullMatch(pat, s) == MatchItems(pat, 1, s, 1)

\* r"^[a-z]{2,3}\d{1,6}$"
PolicyNumberPatternLoose ==
    << [cls |-> "a-z", lo |-> 2, hi |-> 3], [cls |-> "\\d", lo |-> 1, hi |-> 7] >>
PolicyNumberPattern ==
    << [cls |-> "a-z", lo |-> 2, hi |-> 3], [cls |-> "\\d", lo |-> 1, hi |-> 6] >>

\* PolicyNumber = Annotated[str, StringConstraints(pattern=...)]
PolicyNumber(x) == x.tag = "str" /\ FullMatch(PolicyNumberPattern, x.v)

\* ---------------------------------------------------------------------------
\* Python dict: insertion-ordered map, as a sequence of entries
\* ---------------------------------------------------------------------------
Keys(store) == {store[i].key : i \in 1..Len(store)}
Has(store, k) == k \in Keys(store)
IndexOf(store, k) == CHOOSE i \in 1..Len(store) : store[i].key = k
Lookup(store, k) == store[IndexOf(store, k)].val
\* store[k] = v : a key already present keeps its position.
Assign(store, k, v) ==
    IF Has(store, k)
    THEN [store EXCEPT ![IndexOf(store, k)] = [key |-> k, val |-> v]]
    ELSE Append(store, [key |-> k, val |-> v])
\* list(store.values())
Values(store) == [i \in 1..Len(store) |-> store[i].val]

\* dict.update after model_dump(exclude_none=True): a null in upd is dropped.
OverlayExcludeNone(stored, upd) ==
    [f \in (DOMAIN stored) \cup (DOMAIN upd) |->
        IF f \in DOMAIN upd /\ (f \notin DOMAIN stored \/ upd[f] # None)
        THEN upd[f] ELSE stored[f]]
\* dict.update: the keys of upd overwrite, the others stay.
Overlay(stored, upd) ==
    [f \in (DOMAIN stored) \cup (DOMAIN upd) |->
        IF f \in DOMAIN upd THEN upd[f] ELSE stored[f]]

\* A request body: the fields of full that are set.
Body(full) == [f \in {g \in DOMAIN full : full[g] # Unset} |-> full[f]]

\* The text of a string literal, character by character.
T_ab1234 == <<"a", "b", "1", "2", "3", "4">>
T_AB123 == <<"A", "B", "1", "2", "3">>
T_abcd12 == <<"a", "b", "c", "d", "1", "2">>
T_ab == <<"a", "b">>
T_rx123456789 == <<"r", "x", "1", "2", "3", "4", "5", "6", "7", "8", "9">>
T_ab1234567 == <<"a", "b", "1", "2", "3", "4", "5", "6", "7">>
T_rx98765 == <<"r", "x", "9", "8", "7", "6", "5">>
T_rx12345678 == <<"r", "x", "1", "2", "3", "4", "5", "6", "7", "8">>
T_None == <<"N", "o", "n", "e">>

\* ---------------------------------------------------------------------------
\* State
\* ---------------------------------------------------------------------------
VARIABLES
    persons,      \* Dict[UUID, PersonRead]
    addresses,    \* Dict[UUID, AddressRead]
    insurances,   \* Dict[UUID, InsuranceRead]
    pharmacies,   \* Dict[UUID, PharmacyRead]
    uuids,        \* how many UUIDs uuid4() has handed out
    now,          \* the reading of datetime.utcnow()
    resp,         \* the last request served: handler, status, body
    requests      \* per worker thread: the PATCH it is serving and its locals

vars == <<persons, addresses, insurances, pharmacies, uuids, now, resp, requests>>
stores == <<persons, addresses, insurances, pharmacies>>

TotalRecords == Len(persons) + Len(addresses) + Len(insurances) + Len(pharmacies)
Kinds == Cardinality({k \in 1..4 : stores[k] # <<>>})

\* The model's bounds let store take one more record.
Room(store) ==
    /\ TotalRecords < MaxRecords
    /\ store # <<>> \/ Kinds < MaxKinds

\* uuid4(): a UUID no earlier call returned.
uuid4 == uuids + 1

\* The identifiers a request path (or an Address body) may carry: every key a
\* store can hold and one more.
PathIds == 1 .. (MaxRecords + 1)

Response(op, status, body) == [op |-> op, status |-> status, body |-> body]

\* The threads of the pool that runs the handlers, and a thread with no request.
Threads == 1..MaxThreads
Idle == [pc |-> "idle", served |-> 0]

\* ---------------------------------------------------------------------------
\* models/insurance.py
\* ---------------------------------------------------------------------------
InsuranceFields == {"provider", "policy_number", "start_date", "end_date"}
OptionalDate(x) == x.tag \in {"date", "none"}

\* InsuranceBase: provider and policy_number required, the dates default to None.
InsuranceBaseOk(d) ==
    /\ "provider" \in DOMAIN d /\ d.provider.tag = "str"
    /\ "policy_number" \in DOMAIN d /\ PolicyNumber(d.policy_number)
    /\ ("start_date" \in DOMAIN d => OptionalDate(d.start_date))
    /\ ("end_date" \in DOMAIN d => OptionalDate(d.end_date))

\* InsuranceCreate(InsuranceBase), and its model_dump().
InsuranceCreateOk(d) == InsuranceBaseOk(d)
\* model_dump() of the required fields only.
InsuranceCreateRequiredOnly(d) ==
    [provider |-> d.provider, policy_number |-> d.policy_number]
InsuranceCreate(d) ==
    [provider |-> d.provider,
     policy_number |-> d.policy_number,
     start_date |-> IF "start_date" \in DOMAIN d THEN d.start_date ELSE None,
     end_date |-> IF "end_date" \in DOMAIN d THEN d.end_date ELSE None]

\* InsuranceUpdate: every field Optional; model_dump(exclude_unset=True) is the
\* body's own fields.
InsuranceUpdateOk(d) ==
    /\ ("provider" \in DOMAIN d => d.provider.tag \in {"str", "none"})
    /\ ("policy_number" \in DOMAIN d =>
            d.policy_number.tag = "none" \/ PolicyNumber(d.policy_number))
    /\ ("start_date" \in DOMAIN d => OptionalDate(d.start_date))
    /\ ("end_date" \in DOMAIN d => OptionalDate(d.end_date))

\* InsuranceRead(**d): the Base fields validated again; id, created_at and
\* updated_at taken from d when d has them, from the default factories otherwise.
InsuranceReadOk(d) == InsuranceBaseOk(d)
\* InsuranceRead that ignores the id it is given: every construction draws one.
InsuranceReadFreshId(d, fresh, t) ==
    [provider |-> d.provider,
     policy_number |-> d.policy_number,
     start_date |-> IF "start_date" \in DOMAIN d THEN d.start_date ELSE None,
     end_date |-> IF "end_date" \in DOMAIN d THEN d.end_date ELSE None,
     id |-> fresh,
     created_at |-> IF "created_at" \in DOMAIN d THEN d.created_at ELSE t,
     updated_at |-> IF "updated_at" \in DOMAIN d THEN d.updated_at ELSE t]
\* InsuranceRead built from the Base fields alone: every construction draws a
\* new created_at.
InsuranceReadRestamped(d, fresh, t) ==
    [provider |-> d.provider,
     policy_number |-> d.policy_number,
     start_date |-> IF "start_date" \in DOMAIN d THEN d.start_date ELSE None,
     end_date |-> IF "end_date" \in DOMAIN d THEN d.end_date ELSE None,
     id |-> IF "id" \in DOMAIN d THEN d.id ELSE fresh,
     created_at |-> t,
     updated_at |-> IF "updated_at" \in DOMAIN d THEN d.updated_at ELSE t]
InsuranceRead(d, fresh, t) ==
    [provider |-> d.provider,
     policy_number |-> d.policy_number,
     start_date |-> IF "start_date" \in DOMAIN d THEN d.start_date ELSE None,
     end_date |-> IF "end_date" \in DOMAIN d THEN d.end_date ELSE None,
     id |-> IF "id" \in DOMAIN d THEN d.id ELSE fresh,
     created_at |-> IF "created_at" \in DOMAIN d THEN d.created_at ELSE t,
     updated_at |-> IF "updated_at" \in DOMAIN d THEN d.updated_at ELSE t]

\* ---------------------------------------------------------------------------
\* Request bodies and query strings the clients send
\* ---------------------------------------------------------------------------
BadPolicyNumbers ==
    {S(T_AB123), S(T_abcd12), S(T_ab), S(T_rx123456789), S(T_ab1234567)}
StartDate == D(2025, 1, 1)
EndDate == D(2025, 12, 31)
\* A date written without the leading zeros: equal to no isoformat() text.
T_2025_1_1 == <<"2", "0", "2", "5", "-", "1", "-", "1">>

\* POST /insurances bodies: the schema's example with and without its dates,
\* and bodies the schema rejects.
InsuranceCreateBodies ==
    {Body([provider |-> S("Aetna"), policy_number |-> S(T_ab1234),
           start_date |-> StartDate, end_date |-> EndDate]),
     Body([provider |-> S("Aetna"), policy_number |-> S(T_ab1234)])}
    \cup {Body([provider |-> S("Aetna"), policy_number |-> n]) :
            n \in BadPolicyNumbers \cup {Unset, None}}
    \cup {Body([provider |-> p, policy_number |-> S(T_ab1234)]) : p \in {Unset, None}}

\* PATCH /insurances bodies: nothing, one field, or provider with one other field.
InsuranceUpdateBodies ==
    {Body([provider |-> p]) : p \in {Unset, None, S("BlueCross")}}
    \cup {Body([policy_number |-> n]) :
            n \in {S(T_ab1234), None, S(T_AB123), S(T_ab1234567)}}
    \cup {Body([start_date |-> None]),
          Body([provider |-> S("BlueCross"), policy_number |-> None]),
          Body([provider |-> S("BlueCross"), start_date |-> None])}

\* GET /insurances queries: at most two filters at a time.
NoFilters == [f \in {} |-> None]
InsuranceQueries ==
    {NoFilters, Body([provider |-> S("BlueCross")]), Body([policy_number |-> S(T_ab1234)])}
    \cup {Body([start_date |-> S(x)]) : x \in {DateIso(StartDate), T_2025_1_1, T_None}}
    \cup {Body([end_date |-> S(x)]) : x \in {DateIso(EndDate), T_None}}
    \cup {Body([provider |-> S("Aetna"), start_date |-> S(T_None)]),
          Body([start_date |-> S(DateIso(StartDate)), end_date |-> S(DateIso(EndDate))])}

\* The value of a query parameter: None when the query does not carry it.
Param(q, f) == IF f \in DOMAIN q THEN q[f] ELSE None

\* ---------------------------------------------------------------------------
\* main.py: Insurance endpoints
\* ---------------------------------------------------------------------------
\* POST /insurances
create_insurance(insurance) ==
    IF ~InsuranceCreateOk(insurance)
    THEN /\ resp' = Response("create_insurance", 422, None)
         /\ UNCHANGED <<stores, uuids, now>>
    ELSE LET insurance_read == InsuranceRead(InsuranceCreate(insurance), uuid4, now)
         IN /\ Room(insurances)
            /\ insurances' = Assign(insurances, insurance_read.id, insurance_read)
            /\ uuids' = uuids + 1
            /\ resp' = Response("create_insurance", 201, insurance_read)
            /\ UNCHANGED <<persons, addresses, pharmacies, now>>

\* GET /insurances
list_insurances_results(store, provider, policy_number, start_date, end_date) ==
    LET r0 == Values(store)
        r1 == IF provider # None
              THEN SelectSeq(r0, LAMBDA i : i.provider = provider) ELSE r0
        r2 == IF policy_number # None
              THEN SelectSeq(r1, LAMBDA i : i.policy_number = policy_number) ELSE r1
        r3 == IF start_date # None
              THEN SelectSeq(r2, LAMBDA i : PyStr(i.start_date) = start_date.v) ELSE r2
        r4 == IF end_date # None
              THEN SelectSeq(r3, LAMBDA i :
                        i.end_date # None /\ PyStr(i.end_date) = end_date.v)
              ELSE r3
    IN r4

list_insurances(provider, policy_number, start_date, end_date) ==
    /\ resp' = Response("list_insurances", 200,
                list_insurances_results(insurances, provider, policy_number,
                                        start_date, end_date))
    /\ UNCHANGED <<stores, uuids, now>>

\* GET /insurances/{insurance_id}
get_insurance_response(store, insurance_id) ==
    IF ~Has(store, insurance_id)
    THEN Response("get_insurance", 404, None)
    ELSE Response("get_insurance", 200, Lookup(store, insurance_id))

get_insurance(insurance_id) ==
    /\ resp' = get_insurance_response(insurances, insurance_id)
    /\ UNCHANGED <<stores, uuids, now>>

\* PATCH without the membership test: an unknown id is written as a new entry
\* when the body alone makes a record, and is a server error otherwise.
update_insurance_upsert(insurance_id, update) ==
    IF ~InsuranceUpdateOk(update)
    THEN /\ resp' = Response("update_insurance", 422, None)
         /\ UNCHANGED <<stores, uuids, now>>
    ELSE LET stored == IF Has(insurances, insurance_id)
                       THEN Overlay(Lookup(insurances, insurance_id), update)
                       ELSE update
         IN IF ~InsuranceReadOk(stored)
            THEN /\ resp' = Response("update_insurance", 500, None)
                 /\ UNCHANGED <<stores, uuids, now>>
            ELSE /\ insurances' = Assign(insurances, insurance_id,
                                         InsuranceRead(stored, insurance_id, now))
                 /\ resp' = Response("update_insurance", 200,
                                     Lookup(insurances', insurance_id))
                 /\ UNCHANGED <<persons, addresses, pharmacies, uuids, now>>

\* PATCH that assigns the merged dict before it is validated.
update_insurance_assign_first(insurance_id, update) ==
    IF ~InsuranceUpdateOk(update)
    THEN /\ resp' = Response("update_insurance", 422, None)
         /\ UNCHANGED <<stores, uuids, now>>
    ELSE IF ~Has(insurances, insurance_id)
    THEN /\ resp' = Response("update_insurance", 404, None)
         /\ UNCHANGED <<stores, uuids, now>>
    ELSE LET stored == Overlay(Lookup(insurances, insurance_id), update)
         IN /\ insurances' = Assign(insurances, insurance_id, stored)
            /\ resp' = IF ~InsuranceReadOk(stored)
                       THEN Response("update_insurance", 500, None)
                       ELSE Response("update_insurance", 200, stored)
            /\ UNCHANGED <<persons, addresses, pharmacies, uuids, now>>

\* PATCH /insurances/{insurance_id}
update_insurance(insurance_id, update) ==
    IF ~InsuranceUpdateOk(update)
    THEN /\ resp' = Response("update_insurance", 422, None)
         /\ UNCHANGED <<stores, uuids, now>>
    ELSE IF ~Has(insurances, insurance_id)
    THEN /\ resp' = Response("update_insurance", 404, None)
         /\ UNCHANGED <<stores, uuids, now>>
    ELSE LET stored == Overlay(Lookup(insurances, insurance_id), update)
         IN IF ~InsuranceReadOk(stored)
            THEN /\ resp' = Response("update_insurance", 500, None)
                 /\ UNCHANGED <<stores, uuids, now>>
            ELSE /\ insurances' = Assign(insurances, insurance_id,
                                         InsuranceRead(stored, uuid4, now))
                 /\ resp' = Response("update_insurance", 200,
                                     Lookup(insurances', insurance_id))
                 /\ UNCHANGED <<persons, addresses, pharmacies, uuids, now>>

\* ---------------------------------------------------------------------------
\* models/address.py (AddressBase, as models/pharmacy.py imports it)
\* ---------------------------------------------------------------------------
AddressFields == {"street", "city", "state", "postal_code", "country"}

\* An AddressBase object: the client-supplied id and the five text fields.
Address(k, street, city, state, postal_code, country) ==
    [tag |-> "address", id |-> k, street |-> S(street), city |-> S(city),
     state |-> S(state), postal_code |-> S(postal_code), country |-> S(country)]

AddressBaseOk(d) ==
    /\ "id" \in DOMAIN d
    /\ \A f \in AddressFields : f \in DOMAIN d /\ d[f].tag = "str"

\* AddressCreate(AddressBase), and its model_dump().
AddressCreateOk(d) == AddressBaseOk(d)
AddressCreate(d) == [f \in AddressFields \cup {"id"} |-> d[f]]

\* AddressUpdate: the five text fields, each optional; the id comes from the path.
AddressUpdateOk(d) ==
    \A f \in DOMAIN d : f \in AddressFields /\ d[f].tag \in {"str", "none"}

\* AddressRead(**d): AddressBase and the two timestamps.
AddressReadOk(d) == AddressBaseOk(d)
AddressRead(d, t) ==
    [id |-> d.id, street |-> d.street, city |-> d.city, state |-> d.state,
     postal_code |-> d.postal_code, country |-> d.country,
     created_at |-> IF "created_at" \in DOMAIN d THEN d.created_at ELSE t,
     updated_at |-> IF "updated_at" \in DOMAIN d THEN d.updated_at ELSE t]

\* ---------------------------------------------------------------------------
\* models/person.py
\* ---------------------------------------------------------------------------
PersonTextFields == {"uni", "first_name", "last_name", "email", "phone"}
PersonFields == PersonTextFields \cup {"birth_date", "addresses"}

\* A List[AddressBase].
AddressList(items) == [tag |-> "list", items |-> items]

PersonBaseOk(d) ==
    /\ \A f \in PersonTextFields : f \in DOMAIN d /\ d[f].tag = "str"
    /\ "birth_date" \in DOMAIN d /\ d.birth_date.tag = "date"
    /\ "addresses" \in DOMAIN d /\ d.addresses.tag = "list"

PersonCreateOk(d) == PersonBaseOk(d)
PersonCreate(d) == [f \in PersonFields |-> d[f]]

PersonUpdateOk(d) ==
    \A f \in DOMAIN d :
        /\ f \in PersonFields
        /\ f \in PersonTextFields => d[f].tag \in {"str", "none"}
        /\ f = "birth_date" => d[f].tag \in {"date", "none"}
        /\ f = "addresses" => d[f].tag \in {"list", "none"}

PersonReadOk(d) == PersonBaseOk(d)
PersonRead(d, fresh, t) ==
    [uni |-> d.uni, first_name |-> d.first_name, last_name |-> d.last_name,
     email |-> d.email, phone |-> d.phone, birth_date |-> d.birth_date,
     addresses |-> d.addresses,
     id |-> IF "id" \in DOMAIN d THEN d.id ELSE fresh,
     created_at |-> IF "created_at" \in DOMAIN d THEN d.created_at ELSE t,
     updated_at |-> IF "updated_at" \in DOMAIN d THEN d.updated_at ELSE t]

\* ---------------------------------------------------------------------------
\* models/pharmacy.py
\* ---------------------------------------------------------------------------
PharmacyFields == {"name", "license_number", "address", "phone"}

\* r"^[a-z]{2,3}\d{1,8}$"
LicenseNumberPattern ==
    << [cls |-> "a-z", lo |-> 2, hi |-> 3], [cls |-> "\\d", lo |-> 1, hi |-> 8] >>

\* LicenseNumber = Annotated[str, StringConstraints(pattern=...)]
LicenseNumber(x) == x.tag = "str" /\ FullMatch(LicenseNumberPattern, x.v)

\* PharmacyBase: name, license_number and address required, phone defaults to None.
PharmacyBaseOk(d) ==
    /\ "name" \in DOMAIN d /\ d.name.tag = "str"
    /\ "license_number" \in DOMAIN d /\ LicenseNumber(d.license_number)
    /\ "address" \in DOMAIN d /\ d.address.tag = "address"
    /\ ("phone" \in DOMAIN d => d.phone.tag \in {"str", "none"})

\* PharmacyCreate(PharmacyBase), and its model_dump().
PharmacyCreateOk(d) == PharmacyBaseOk(d)
PharmacyCreate(d) ==
    [name |-> d.name, license_number |-> d.license_number, address |-> d.address,
     phone |-> IF "phone" \in DOMAIN d THEN d.phone ELSE None]

\* PharmacyUpdate: every field Optional.
PharmacyUpdateOk(d) ==
    /\ ("name" \in DOMAIN d => d.name.tag \in {"str", "none"})
    /\ ("license_number" \in DOMAIN d =>
            d.license_number.tag = "none" \/ LicenseNumber(d.license_number))
    /\ ("address" \in DOMAIN d => d.address.tag \in {"address", "none"})
    /\ ("phone" \in DOMAIN d => d.phone.tag \in {"str", "none"})

\* PharmacyRead(**d)
PharmacyReadOk(d) == PharmacyBaseOk(d)
PharmacyRead(d, fresh, t) ==
    [name |-> d.name, license_number |-> d.license_number, address |-> d.address,
     phone |-> IF "phone" \in DOMAIN d THEN d.phone ELSE None,
     id |-> IF "id" \in DOMAIN d THEN d.id ELSE fresh,
     created_at |-> IF "created_at" \in DOMAIN d THEN d.created_at ELSE t,
     updated_at |-> IF "updated_at" \in DOMAIN d THEN d.updated_at ELSE t]

\* ---------------------------------------------------------------------------
\* Request bodies and queries for addresses, persons and pharmacies
\* ---------------------------------------------------------------------------
AddrNewYork == Address(1, "123 Main St", "New York", "NY", "10027", "USA")
AddrBoston == Address(2, "10 Broadway", "Boston", "MA", "02110", "USA")

\* The JSON body of an address: its fields without the model's tag.
AddressBody(a) == [f \in AddressFields \cup {"id"} |-> a[f]]
Without(d, f) == [g \in (DOMAIN d) \ {f} |-> d[g]]

\* POST /addresses bodies: two addresses under each of two ids, and bodies the
\* schema rejects.
AddressCreateBodies ==
    {[AddressBody(a) EXCEPT !.id = k] : a \in {AddrNewYork, AddrBoston}, k \in 1..2}
    \cup {Without(AddressBody(AddrNewYork), f) : f \in {"id", "city"}}

AddressUpdateBodies ==
    {NoFilters, Body([city |-> S("Boston")]), Body([city |-> None]),
     Body([city |-> S("Boston"), country |-> None])}

AddressQueries ==
    {NoFilters, Body([street |-> S("123 Main St")]), Body([city |-> S("Boston")]),
     Body([state |-> S("NY"), postal_code |-> S("10027")]),
     Body([country |-> S("Canada")])}
    \cup {Body([city |-> S(x), country |-> S("USA")]) : x \in {"New York", "Boston"}}

BirthDate == D(1815, 12, 10)
PersonExample(addrs) ==
    [uni |-> S("abc1234"), first_name |-> S("Ada"), last_name |-> S("Lovelace"),
     email |-> S("ada@example.com"), phone |-> S("+1-212-555-0199"),
     birth_date |-> BirthDate, addresses |-> AddressList(addrs)]

PersonCreateBodies ==
    {PersonExample(<<AddrNewYork, AddrBoston>>), PersonExample(<<>>)}
    \cup {Without(PersonExample(<<>>), f) : f \in {"uni", "addresses"}}

PersonUpdateBodies ==
    {NoFilters, Body([first_name |-> S("Grace")]), Body([first_name |-> None]),
     Body([first_name |-> S("Grace"), addresses |-> None])}

PersonQueries ==
    {NoFilters, Body([uni |-> S("abc1234"), last_name |-> S("Lovelace")]),
     Body([email |-> S("ada@example.com"), phone |-> S("+1-212-555-0199")]),
     Body([first_name |-> S("Grace")]), Body([birth_date |-> S(DateIso(BirthDate))]),
     Body([birth_date |-> S(T_None)]), Body([city |-> S("Paris")]),
     Body([country |-> S("USA")]),
     Body([first_name |-> S("Ada"), city |-> S("Boston")]),
     Body([city |-> S("Boston"), country |-> S("Canada")])}

BadLicenseNumbers == {S(T_rx123456789), S(T_AB123), S(T_abcd12), S(T_ab)}

PharmacyCreateBodies ==
    {Body([name |-> S("CVS Pharmacy"), license_number |-> S(T_rx98765),
           address |-> AddrNewYork, phone |-> S("+1-212-555-0199")]),
     Body([name |-> S("CVS Pharmacy"), license_number |-> S(T_rx12345678),
           address |-> AddrBoston])}
    \cup {Body([name |-> S("CVS Pharmacy"), license_number |-> n,
                address |-> AddrNewYork]) : n \in BadLicenseNumbers \cup {Unset, None}}
    \cup {Body([name |-> S("CVS Pharmacy"), license_number |-> S(T_rx98765)])}

PharmacyUpdateBodies ==
    {Body([name |-> x]) : x \in {Unset, None, S("Walgreens")}}
    \cup {Body([license_number |-> n]) :
            n \in {S(T_rx98765), None, S(T_AB123), S(T_rx123456789)}}
    \cup {Body([address |-> AddrBoston]),
          Body([name |-> S("Walgreens"), address |-> None])}

PharmacyQueries ==
    {NoFilters, Body([name |-> S("Walgreens")]),
     Body([license_number |-> S(T_rx98765)]), Body([phone |-> S("+1-212-555-0199")]),
     Body([state |-> S("NY"), postal_code |-> S("10027")]),
     Body([city |-> S("Boston")]), Body([country |-> S("Canada")]),
     Body([name |-> S("CVS Pharmacy"), city |-> S("Boston")]),
     Body([city |-> S("New York"), country |-> S("USA")])}

\* ---------------------------------------------------------------------------
\* main.py: Address endpoints
\* ---------------------------------------------------------------------------
\* POST /addresses without the duplicate test.
create_address_overwrite(address) ==
    IF ~AddressCreateOk(address)
    THEN /\ resp' = Response("create_address", 422, None)
         /\ UNCHANGED <<stores, uuids, now>>
    ELSE /\ Has(addresses, address.id) \/ Room(addresses)
         /\ addresses' = Assign(addresses, address.id,
                                AddressRead(AddressCreate(address), now))
         /\ resp' = Response("create_address", 201, Lookup(addresses', address.id))
         /\ UNCHANGED <<persons, insurances, pharmacies, uuids, now>>

\* POST /addresses
create_address(address) ==
    IF ~AddressCreateOk(address)
    THEN /\ resp' = Response("create_address", 422, None)
         /\ UNCHANGED <<stores, uuids, now>>
    ELSE IF Has(addresses, address.id)
    THEN /\ resp' = Response("create_address", 400, None)
         /\ UNCHANGED <<stores, uuids, now>>
    ELSE /\ Room(addresses)
         /\ addresses' = Assign(addresses, address.id,
                                AddressRead(AddressCreate(address), now))
         /\ resp' = Response("create_address", 201, Lookup(addresses', address.id))
         /\ UNCHANGED <<persons, insurances, pharmacies, uuids, now>>

\* GET /addresses
list_addresses_results(store, street, city, state, postal_code, country) ==
    LET r0 == Values(store)
        r1 == IF street # None THEN SelectSeq(r0, LAMBDA a : a.street = street) ELSE r0
        r2 == IF city # None THEN SelectSeq(r1, LAMBDA a : a.city = city) ELSE r1
        r3 == IF state # None THEN SelectSeq(r2, LAMBDA a : a.state = state) ELSE r2
        r4 == IF postal_code # None
              THEN SelectSeq(r3, LAMBDA a : a.postal_code = postal_code) ELSE r3
        r5 == IF country # None
              THEN SelectSeq(r4, LAMBDA a : a.country = country) ELSE r4
    IN r5

list_addresses(street, city, state, postal_code, country) ==
    /\ resp' = Response("list_addresses", 200,
                list_addresses_results(addresses, street, city, state,
                                       postal_code, country))
    /\ UNCHANGED <<stores, uuids, now>>

\* GET /addresses/{address_id}
get_address_response(store, address_id) ==
    IF ~Has(store, address_id)
    THEN Response("get_address", 404, None)
    ELSE Response("get_address", 200, Lookup(store, address_id))

get_address(address_id) ==
    /\ resp' = get_address_response(addresses, address_id)
    /\ UNCHANGED <<stores, uuids, now>>

\* PATCH /addresses/{address_id}
update_address(address_id, update) ==
    IF ~AddressUpdateOk(update)
    THEN /\ resp' = Response("update_address", 422, None)
         /\ UNCHANGED <<stores, uuids, now>>
    ELSE IF ~Has(addresses, address_id)
    THEN /\ resp' = Response("update_address", 404, None)
         /\ UNCHANGED <<stores, uuids, now>>
    ELSE LET stored == Overlay(Lookup(addresses, address_id), update)
         IN IF ~AddressReadOk(stored)
            THEN /\ resp' = Response("update_address", 500, None)
                 /\ UNCHANGED <<stores, uuids, now>>
            ELSE /\ addresses' = Assign(addresses, address_id, AddressRead(stored, now))
                 /\ resp' = Response("update_address", 200,
                                     Lookup(addresses', address_id))
                 /\ UNCHANGED <<persons, insurances, pharmacies, uuids, now>>

\* ---------------------------------------------------------------------------
\* main.py: Person endpoints
\* ---------------------------------------------------------------------------
\* POST /persons
create_person(person) ==
    IF ~PersonCreateOk(person)
    THEN /\ resp' = Response("create_person", 422, None)
         /\ UNCHANGED <<stores, uuids, now>>
    ELSE LET person_read == PersonRead(PersonCreate(person), uuid4, now)
         IN /\ Room(persons)
            /\ persons' = Assign(persons, person_read.id, person_read)
            /\ uuids' = uuids + 1
            /\ resp' = Response("create_person", 201, person_read)
            /\ UNCHANGED <<addresses, insurances, pharmacies, now>>

\* any(addr.<f> == x for addr in p.addresses)
AnyAddress(p, f, x) ==
    \E k \in 1..Len(p.addresses.items) : p.addresses.items[k][f] = x

\* GET /persons
list_persons_results(store, uni, first_name, last_name, email, phone, birth_date, city, country) ==
    LET r0 == Values(store)
        r1 == IF uni # None THEN SelectSeq(r0, LAMBDA p : p.uni = uni) ELSE r0
        r2 == IF first_name # None
              THEN SelectSeq(r1, LAMBDA p : p.first_name = first_name) ELSE r1
        r3 == IF last_name # None
              THEN SelectSeq(r2, LAMBDA p : p.last_name = last_name) ELSE r2
        r4 == IF email # None THEN SelectSeq(r3, LAMBDA p : p.email = email) ELSE r3
        r5 == IF phone # None THEN SelectSeq(r4, LAMBDA p : p.phone = phone) ELSE r4
        r6 == IF birth_date # None
              THEN SelectSeq(r5, LAMBDA p : PyStr(p.birth_date) = birth_date.v) ELSE r5
        r7 == IF city # None
              THEN SelectSeq(r6, LAMBDA p : AnyAddress(p, "city", city)) ELSE r6
        r8 == IF country # None
              THEN SelectSeq(r7, LAMBDA p : AnyAddress(p, "country", country)) ELSE r7
    IN r8

list_persons(uni, first_name, last_name, email, phone, birth_date, city, country) ==
    /\ resp' = Response("list_persons", 200,
                list_persons_results(persons, uni, first_name, last_name, email,
                                     phone, birth_date, city, country))
    /\ UNCHANGED <<stores, uuids, now>>

\* GET /persons/{person_id}
get_person_response(store, person_id) ==
    IF ~Has(store, person_id)
    THEN Response("get_person", 404, None)
    ELSE Response("get_person", 200, Lookup(store, person_id))

get_person(person_id) ==
    /\ resp' = get_person_response(persons, person_id)
    /\ UNCHANGED <<stores, uuids, now>>

\* PATCH /persons/{person_id}
update_person(person_id, update) ==
    IF ~PersonUpdateOk(update)
    THEN /\ resp' = Response("update_person", 422, None)
         /\ UNCHANGED <<stores, uuids, now>>
    ELSE IF ~Has(persons, person_id)
    THEN /\ resp' = Response("update_person", 404, None)
         /\ UNCHANGED <<stores, uuids, now>>
    ELSE LET stored == Overlay(Lookup(persons, person_id), update)
         IN IF ~PersonReadOk(stored)
            THEN /\ resp' = Response("update_person", 500, None)
                 /\ UNCHANGED <<stores, uuids, now>>
            ELSE /\ persons' = Assign(persons, person_id,
                                      PersonRead(stored, uuid4, now))
                 /\ resp' = Response("update_person", 200,
                                     Lookup(persons', person_id))
                 /\ UNCHANGED <<addresses, insurances, pharmacies, uuids, now>>

\* ---------------------------------------------------------------------------
\* main.py: Pharmacy endpoints
\* ---------------------------------------------------------------------------
\* POST /pharmacies
create_pharmacy(pharmacy) ==
    IF ~PharmacyCreateOk(pharmacy)
    THEN /\ resp' = Response("create_pharmacy", 422, None)
         /\ UNCHANGED <<stores, uuids, now>>
    ELSE LET pharmacy_read == PharmacyRead(PharmacyCreate(pharmacy), uuid4, now)
         IN /\ Room(pharmacies)
            /\ pharmacies' = Assign(pharmacies, pharmacy_read.id, pharmacy_read)
            /\ uuids' = uuids + 1
            /\ resp' = Response("create_pharmacy", 201, pharmacy_read)
            /\ UNCHANGED <<persons, addresses, insurances, now>>

\* GET /pharmacies
list_pharmacies_results(store, name, license_number, phone, city, state, postal_code, country) ==
    LET r0 == Values(store)
        r1 == IF name # None THEN SelectSeq(r0, LAMBDA p : p.name = name) ELSE r0
        r2 == IF license_number # None
              THEN SelectSeq(r1, LAMBDA p : p.license_number = license_number) ELSE r1
        r3 == IF phone # None THEN SelectSeq(r2, LAMBDA p : p.phone = phone) ELSE r2
        r4 == IF city # None
              THEN SelectSeq(r3, LAMBDA p : p.address.city = city) ELSE r3
        r5 == IF state # None
              THEN SelectSeq(r4, LAMBDA p : p.address.state = state) ELSE r4
        r6 == IF postal_code # None
              THEN SelectSeq(r5, LAMBDA p : p.address.postal_code = postal_code) ELSE r5
        r7 == IF country # None
              THEN SelectSeq(r6, LAMBDA p : p.address.country = country) ELSE r6
    IN r7

list_pharmacies(name, license_number, phone, city, state, postal_code, country) ==
    /\ resp' = Response("list_pharmacies", 200,
                list_pharmacies_results(pharmacies, name, license_number, phone,
                                        city, state, postal_code, country))
    /\ UNCHANGED <<stores, uuids, now>>

\* GET /pharmacies/{pharmacy_id}
get_pharmacy_response(store, pharmacy_id) ==
    IF ~Has(store, pharmacy_id)
    THEN Response("get_pharmacy", 404, None)
    ELSE Response("get_pharmacy", 200, Lookup(store, pharmacy_id))

get_pharmacy(pharmacy_id) ==
    /\ resp' = get_pharmacy_response(pharmacies, pharmacy_id)
    /\ UNCHANGED <<stores, uuids, now>>

\* PATCH /pharmacies/{pharmacy_id}
update_pharmacy(pharmacy_id, update) ==
    IF ~PharmacyUpdateOk(update)
    THEN /\ resp' = Response("update_pharmacy", 422, None)
         /\ UNCHANGED <<stores, uuids, now>>
    ELSE IF ~Has(pharmacies, pharmacy_id)
    THEN /\ resp' = Response("update_pharmacy", 404, None)
         /\ UNCHANGED <<stores, uuids, now>>
    ELSE LET stored == Overlay(Lookup(pharmacies, pharmacy_id), update)
         IN IF ~PharmacyReadOk(stored)
            THEN /\ resp' = Response("update_pharmacy", 500, None)
                 /\ UNCHANGED <<stores, uuids, now>>
            ELSE /\ pharmacies' = Assign(pharmacies, pharmacy_id,
                                         PharmacyRead(stored, uuid4, now))
                 /\ resp' = Response("update_pharmacy", 200,
                                     Lookup(pharmacies', pharmacy_id))
                 /\ UNCHANGED <<persons, addresses, insurances, uuids, now>>

\* ---------------------------------------------------------------------------
\* The service
\* ---------------------------------------------------------------------------
\* Time passes between two requests.
Tick ==
    /\ now < MaxTime
    /\ now' = now + 1
    /\ UNCHANGED <<stores, uuids, resp, requests>>

CreateAddress ==
    /\ \E b \in AddressCreateBodies : create_address(b)
    /\ UNCHANGED requests
ListAddresses ==
    /\ \E q \in AddressQueries :
           list_addresses(Param(q, "street"), Param(q, "city"), Param(q, "state"),
                          Param(q, "postal_code"), Param(q, "country"))
    /\ UNCHANGED requests
GetAddress ==
    /\ \E id \in PathIds : get_address(id)
    /\ UNCHANGED requests
UpdateAddress ==
    /\ \E id \in PathIds, b \in AddressUpdateBodies : update_address(id, b)
    /\ UNCHANGED requests

CreatePerson ==
    /\ \E b \in PersonCreateBodies : create_person(b)
    /\ UNCHANGED requests
ListPersons ==
    /\ \E q \in PersonQueries :
           list_persons(Param(q, "uni"), Param(q, "first_name"), Param(q, "last_name"),
                        Param(q, "email"), Param(q, "phone"), Param(q, "birth_date"),
                        Param(q, "city"), Param(q, "country"))
    /\ UNCHANGED requests
GetPerson ==
    /\ \E id \in PathIds : get_person(id)
    /\ UNCHANGED requests
UpdatePerson ==
    /\ \E id \in PathIds, b \in PersonUpdateBodies : update_person(id, b)
    /\ UNCHANGED requests

CreateInsurance ==
    /\ \E b \in InsuranceCreateBodies : create_insurance(b)
    /\ UNCHANGED requests
ListInsurances ==
    /\ \E q \in InsuranceQueries :
           list_insurances(Param(q, "provider"), Param(q, "policy_number"),
                           Param(q, "start_date"), Param(q, "end_date"))
    /\ UNCHANGED requests
GetInsurance ==
    /\ \E id \in PathIds : get_insurance(id)
    /\ UNCHANGED requests
UpdateInsurance ==
    /\ \E id \in PathIds, b \in InsuranceUpdateBodies : update_insurance(id, b)
    /\ UNCHANGED requests

CreatePharmacy ==
    /\ \E b \in PharmacyCreateBodies : create_pharmacy(b)
    /\ UNCHANGED requests
ListPharmacies ==
    /\ \E q \in PharmacyQueries :
           list_pharmacies(Param(q, "name"), Param(q, "license_number"),
                           Param(q, "phone"), Param(q, "city"), Param(q, "state"),
                           Param(q, "postal_code"), Param(q, "country"))
    /\ UNCHANGED requests
GetPharmacy ==
    /\ \E id \in PathIds : get_pharmacy(id)
    /\ UNCHANGED requests
UpdatePharmacy ==
    /\ \E id \in PathIds, b \in PharmacyUpdateBodies : update_pharmacy(id, b)
    /\ UNCHANGED requests

Init ==
    /\ persons = <<>>
    /\ addresses = <<>>
    /\ insurances = <<>>
    /\ pharmacies = <<>>
    /\ uuids = 0
    /\ now = 0
    /\ resp = Response("start", 0, None)
    /\ requests = [t \in Threads |-> Idle]

Next ==
    \/ Tick
    \/ CreateAddress \/ ListAddresses \/ GetAddress \/ UpdateAddress
    \/ CreatePerson \/ ListPersons \/ GetPerson \/ UpdatePerson
    \/ CreateInsurance \/ ListInsurances \/ GetInsurance \/ UpdateInsurance
    \/ CreatePharmacy \/ ListPharmacies \/ GetPharmacy \/ UpdatePharmacy

Spec == Init /\ [][Next]_vars

\* ---------------------------------------------------------------------------
\* The service under clients that try texts as policy and license numbers
\* ---------------------------------------------------------------------------
LetterAt(k) == <<"r", "x", "z">>[((k - 1) % 3) + 1]
Letters(i) == [k \in 1..i |-> LetterAt(k)]
Digits(j) == [k \in 1..j |-> Dig(k)]

\* Lengths of the run of digits tried: none, and those on either side of the
\* two limits.
DigitRuns == {0, 1, 6, 7, 8, MaxDigits}

\* Runs of letters then digits; the same with a capital or a hyphen put before,
\* or a capital, a hyphen or a line feed put after; digits before letters; and
\* the texts the documentation names.
TextCandidates ==
    {Letters(i) \o Digits(j) : i \in 0..MaxLetters, j \in DigitRuns}
    \cup {<<c>> \o Letters(i) \o Digits(6) : c \in {"A", "-"}, i \in 1..2}
    \cup {Letters(2) \o Digits(j) \o <<c>> : c \in {"A", "-", "\n"}, j \in {1, 6}}
    \cup {Digits(j) \o Letters(2) : j \in {1, 6}}
    \cup {T_ab1234, T_AB123, T_abcd12, T_ab, T_rx123456789}

InsuranceWith(t) == Body([provider |-> S("Aetna"), policy_number |-> S(t)])
PharmacyWith(t) ==
    Body([name |-> S("CVS Pharmacy"), license_number |-> S(t), address |-> AddrNewYork])

TryCreateInsurance ==
    /\ \E t \in TextCandidates : create_insurance(InsuranceWith(t))
    /\ UNCHANGED requests
TryUpdateInsurance ==
    /\ \E id \in PathIds, t \in TextCandidates :
           update_insurance(id, Body([policy_number |-> S(t)]))
    /\ UNCHANGED requests
TryCreatePharmacy ==
    /\ \E t \in TextCandidates : create_pharmacy(PharmacyWith(t))
    /\ UNCHANGED requests
TryUpdatePharmacy ==
    /\ \E id \in PathIds, t \in TextCandidates :
           update_pharmacy(id, Body([license_number |-> S(t)]))
    /\ UNCHANGED requests

NextValidate ==
    \/ TryCreateInsurance \/ TryUpdateInsurance
    \/ TryCreatePharmacy \/ TryUpdatePharmacy

SpecValidate == Init /\ [][NextValidate]_vars

\* ---------------------------------------------------------------------------
\* The service with PATCH requests running on several threads
\* ---------------------------------------------------------------------------
\* FastAPI runs a `def` handler on a thread of its pool; the interpreter may
\* switch threads between two statements of the handler.  A membership test,
\* a subscript read and a subscript assignment of a dict are each one step.
\* A thread's request: the handler and the statement it is at, its arguments,
\* its local `stored` as read from the store, and the response once it is done.
Request(t, pc, op, id, update, status) ==
    [pc |-> pc, op |-> op, id |-> id, update |-> update, read |-> None,
     status |-> status, body |-> None, served |-> requests[t].served + 1]
Free(t) ==
    /\ requests[t].pc \in {"idle", "done"}
    /\ requests[t].served < MaxPatches
At(t, op, pc) ==
    /\ requests[t].pc = pc
    /\ requests[t].op = op
Goto(t, pc) == requests' = [requests EXCEPT ![t].pc = pc]
Finish(t, status, body) ==
    requests' = [requests EXCEPT ![t].pc = "done", ![t].status = status,
                                 ![t].body = body]

\* The body is validated, then the handler is called.
update_insurance_call(t, insurance_id, update) ==
    /\ Free(t)
    /\ IF ~InsuranceUpdateOk(update)
       THEN requests' = [requests EXCEPT ![t] =
                Request(t, "done", "update_insurance", insurance_id, update, 422)]
       ELSE requests' = [requests EXCEPT ![t] =
                Request(t, "check", "update_insurance", insurance_id, update, 0)]
    /\ UNCHANGED <<stores, uuids, now, resp>>

\* if insurance_id not in insurances: raise HTTPException(404)
update_insurance_check(t) ==
    /\ At(t, "update_insurance", "check")
    /\ IF ~Has(insurances, requests[t].id)
       THEN Finish(t, 404, None)
       ELSE Goto(t, "read")
    /\ UNCHANGED <<stores, uuids, now, resp>>

\* stored = insurances[insurance_id].model_dump()
update_insurance_read(t) ==
    /\ At(t, "update_insurance", "read")
    /\ requests' = [requests EXCEPT ![t].pc = "assign",
                                    ![t].read = Lookup(insurances, requests[t].id)]
    /\ UNCHANGED <<stores, uuids, now, resp>>

\* An assignment that patches the record the store holds at that moment, not
\* the one the thread read.
update_insurance_assign_current(t) ==
    /\ At(t, "update_insurance", "assign")
    /\ LET stored == Overlay(Lookup(insurances, requests[t].id), requests[t].update)
       IN IF ~InsuranceReadOk(stored)
          THEN /\ Finish(t, 500, None)
               /\ UNCHANGED <<stores, uuids, now, resp>>
          ELSE /\ insurances' = Assign(insurances, requests[t].id,
                                       InsuranceRead(stored, uuid4, now))
               /\ Goto(t, "return")
               /\ UNCHANGED <<persons, addresses, pharmacies, uuids, now, resp>>
\* stored.update(update.model_dump(exclude_unset=True))
\* insurances[insurance_id] = InsuranceRead(**stored)
update_insurance_assign(t) ==
    /\ At(t, "update_insurance", "assign")
    /\ LET stored == Overlay(requests[t].read, requests[t].update)
       IN IF ~InsuranceReadOk(stored)
          THEN /\ Finish(t, 500, None)
               /\ UNCHANGED <<stores, uuids, now, resp>>
          ELSE /\ insurances' = Assign(insurances, requests[t].id,
                                       InsuranceRead(stored, uuid4, now))
               /\ Goto(t, "return")
               /\ UNCHANGED <<persons, addresses, pharmacies, uuids, now, resp>>

\* return insurances[insurance_id]
update_insurance_return(t) ==
    /\ At(t, "update_insurance", "return")
    /\ Finish(t, 200, Lookup(insurances, requests[t].id))
    /\ UNCHANGED <<stores, uuids, now, resp>>

update_person_call(t, person_id, update) ==
    /\ Free(t)
    /\ IF ~PersonUpdateOk(update)
       THEN requests' = [requests EXCEPT ![t] =
                Request(t, "done", "update_person", person_id, update, 422)]
       ELSE requests' = [requests EXCEPT ![t] =
                Request(t, "check", "update_person", person_id, update, 0)]
    /\ UNCHANGED <<stores, uuids, now, resp>>

\* if person_id not in persons: raise HTTPException(404)
update_person_check(t) ==
    /\ At(t, "update_person", "check")
    /\ IF ~Has(persons, requests[t].id)
       THEN Finish(t, 404, None)
       ELSE Goto(t, "read")
    /\ UNCHANGED <<stores, uuids, now, resp>>

\* stored = persons[person_id].model_dump()
update_person_read(t) ==
    /\ At(t, "update_person", "read")
    /\ requests' = [requests EXCEPT ![t].pc = "assign",
                                    ![t].read = Lookup(persons, requests[t].id)]
    /\ UNCHANGED <<stores, uuids, now, resp>>

\* stored.update(update.model_dump(exclude_unset=True))
\* persons[person_id] = PersonRead(**stored)
update_person_assign(t) ==
    /\ At(t, "update_person", "assign")
    /\ LET stored == Overlay(requests[t].read, requests[t].update)
       IN IF ~PersonReadOk(stored)
          THEN /\ Finish(t, 500, None)
               /\ UNCHANGED <<stores, uuids, now, resp>>
          ELSE /\ persons' = Assign(persons, requests[t].id,
                                    PersonRead(stored, uuid4, now))
               /\ Goto(t, "return")
               /\ UNCHANGED <<addresses, insurances, pharmacies, uuids, now, resp>>

\* return persons[person_id]
update_person_return(t) ==
    /\ At(t, "update_person", "return")
    /\ Finish(t, 200, Lookup(persons, requests[t].id))
    /\ UNCHANGED <<stores, uuids, now, resp>>

\* The PATCH bodies sent at the same time: two that change different fields,
\* one whose merged record cannot be rebuilt, one the schema refuses.
InsuranceRaceBodies ==
    {Body([provider |-> S("BlueCross")]), Body([start_date |-> None]),
     Body([policy_number |-> None]), Body([policy_number |-> S(T_AB123)])}
PersonRaceBodies ==
    {Body([first_name |-> S("Grace")]), Body([last_name |-> S("Hopper")]),
     Body([first_name |-> None])}

\* The creates that fill the stores before and between the PATCH requests.
CreateStoredInsurance ==
    /\ \E b \in {c \in InsuranceCreateBodies : InsuranceCreateOk(c)} : create_insurance(b)
    /\ UNCHANGED requests
CreateStoredPerson ==
    /\ \E b \in {c \in PersonCreateBodies : PersonCreateOk(c)} : create_person(b)
    /\ UNCHANGED requests

CallUpdateInsurance ==
    \E t \in Threads, id \in PathIds, b \in InsuranceRaceBodies :
        update_insurance_call(t, id, b)
StepUpdateInsurance ==
    \E t \in Threads :
        \/ update_insurance_check(t)
        \/ update_insurance_read(t)
        \/ update_insurance_assign(t)
        \/ update_insurance_return(t)
CallUpdatePerson ==
    \E t \in Threads, id \in PathIds, b \in PersonRaceBodies :
        update_person_call(t, id, b)
StepUpdatePerson ==
    \E t \in Threads :
        \/ update_person_check(t)
        \/ update_person_read(t)
        \/ update_person_assign(t)
        \/ update_person_return(t)

NextConcurrent ==
    \/ CreateStoredInsurance \/ CallUpdateInsurance \/ StepUpdateInsurance
    \/ CreateStoredPerson \/ CallUpdatePerson \/ StepUpdatePerson

SpecConcurrent == Init /\ [][NextConcurrent]_vars

\* ---------------------------------------------------------------------------
\* Properties
\* ---------------------------------------------------------------------------
UpdateOps == {"update_address", "update_person", "update_insurance", "update_pharmacy"}
CreateOps == {"create_address", "create_person", "create_insurance", "create_pharmacy"}

\* The record under id in new is the one under id in old with exactly the
\* fields of update replaced, and it is what the request returned.
Merged(old, new, id, update, fields) ==
    /\ Has(old, id) /\ Has(new, id)
    /\ resp'.body = Lookup(new, id)
    /\ \A f \in fields :
          Lookup(new, id)[f] =
              IF f \in DOMAIN update THEN update[f] ELSE Lookup(old, id)[f]

\* C1: after a successful PATCH the stored and returned record has, for every
\* Base field, the body's value when the body sets the field (null included)
\* and the value stored before when the body omits it; all four resources.
PartialUpdateOverlaysSetFields ==
    [][/\ (resp'.op = "update_address" /\ resp'.status = 200) =>
            \A id \in PathIds, b \in AddressUpdateBodies :
                \/ Merged(addresses, addresses', id, b, AddressFields)
                \/ ~update_address(id, b)
       /\ (resp'.op = "update_person" /\ resp'.status = 200) =>
            \A id \in PathIds, b \in PersonUpdateBodies :
                \/ Merged(persons, persons', id, b, PersonFields)
                \/ ~update_person(id, b)
       /\ (resp'.op = "update_insurance" /\ resp'.status = 200) =>
            \A id \in PathIds, b \in InsuranceUpdateBodies :
                \/ Merged(insurances, insurances', id, b, InsuranceFields)
                \/ ~update_insurance(id, b)
       /\ (resp'.op = "update_pharmacy" /\ resp'.status = 200) =>
            \A id \in PathIds, b \in PharmacyUpdateBodies :
                \/ Merged(pharmacies, pharmacies', id, b, PharmacyFields)
                \/ ~update_pharmacy(id, b)
      ]_vars

\* The spec's example: Aetna/ab1234 patched with {provider: BlueCross}.
PartialUpdateHappened ==
    /\ resp.op = "update_insurance" /\ resp.status = 200
    /\ resp.body.provider = S("BlueCross")
    /\ resp.body.policy_number = S(T_ab1234)
    /\ resp.body.start_date = StartDate
    /\ Has(insurances, resp.body.id) /\ Lookup(insurances, resp.body.id) = resp.body

\* C2: every successful PATCH writes back a record whose updated_at is the time
\* of the update.
UpdateRefreshesUpdatedAt ==
    (resp.op \in UpdateOps /\ resp.status = 200) => resp.body.updated_at = now

\* C3: no step removes a key from a store, and the record under a key keeps its
\* id and its created_at.
KeptByStep(old, new) ==
    \A k \in Keys(old) :
        /\ Has(new, k)
        /\ Lookup(new, k).id = Lookup(old, k).id
        /\ Lookup(new, k).created_at = Lookup(old, k).created_at

RecordsKeepIdAndCreatedAt ==
    [][/\ addresses' # addresses => KeptByStep(addresses, addresses')
       /\ persons' # persons => KeptByStep(persons, persons')
       /\ insurances' # insurances => KeptByStep(insurances, insurances')
       /\ pharmacies' # pharmacies => KeptByStep(pharmacies, pharmacies')]_vars

\* A record was updated at a time later than its creation.
UpdatedAfterCreation ==
    /\ resp.op \in UpdateOps /\ resp.status = 200
    /\ resp.body.created_at < now
    /\ \E k \in 1..4 : Has(stores[k], resp.body.id)
                        /\ Lookup(stores[k], resp.body.id) = resp.body

\* The record a create returned is stored under its id, and a get of that id
\* right after the create returns the body's fields (a field the body omits
\* has its default, None) with both timestamps set.
RoundTrip(new, got, body, fields) ==
    /\ Has(new, resp'.body.id)
    /\ Lookup(new, resp'.body.id) = resp'.body
    /\ got.status = 200
    /\ \A f \in fields : got.body[f] = IF f \in DOMAIN body THEN body[f] ELSE None
    /\ got.body.created_at \in Nat
    /\ got.body.updated_at \in Nat

\* C4: create, then get by the returned identifier: the Base fields equal the
\* payload's and created_at and updated_at are present.
CreateThenGetRoundTrip ==
    [][/\ (resp'.op = "create_address" /\ resp'.status = 201) =>
            \A b \in AddressCreateBodies :
                create_address(b) =>
                    RoundTrip(addresses', get_address_response(addresses', resp'.body.id),
                              b, AddressFields \cup {"id"})
       /\ (resp'.op = "create_person" /\ resp'.status = 201) =>
            \A b \in PersonCreateBodies :
                create_person(b) =>
                    RoundTrip(persons', get_person_response(persons', resp'.body.id),
                              b, PersonFields)
       /\ (resp'.op = "create_insurance" /\ resp'.status = 201) =>
            \A b \in InsuranceCreateBodies :
                create_insurance(b) =>
                    RoundTrip(insurances',
                              get_insurance_response(insurances', resp'.body.id),
                              b, InsuranceFields)
       /\ (resp'.op = "create_pharmacy" /\ resp'.status = 201) =>
            \A b \in PharmacyCreateBodies :
                create_pharmacy(b) =>
                    RoundTrip(pharmacies',
                              get_pharmacy_response(pharmacies', resp'.body.id),
                              b, PharmacyFields)
      ]_vars

\* An insurance with both dates was created and is stored.
CreatedWithDates ==
    /\ resp.op = "create_insurance" /\ resp.status = 201
    /\ resp.body.start_date = StartDate /\ resp.body.end_date = EndDate
    /\ get_insurance_response(insurances, resp.body.id).body = resp.body

\* The text a filter value is compared with: a string itself, a date in its
\* text form.
TextOf(x) == IF x.tag = "date" THEN DateIso(x) ELSE x.v
\* Exact equality of a field with a filter value; a null field equals none.
FieldEquals(x, filter) == x.tag # "none" /\ TextOf(x) = filter.v

AddressSatisfies(r, q) == \A f \in DOMAIN q : FieldEquals(r[f], q[f])
PersonSatisfies(r, q) ==
    \A f \in DOMAIN q :
        IF f \in {"city", "country"}
        THEN \E k \in 1..Len(r.addresses.items) :
                FieldEquals(r.addresses.items[k][f], q[f])
        ELSE FieldEquals(r[f], q[f])
InsuranceSatisfies(r, q) == \A f \in DOMAIN q : FieldEquals(r[f], q[f])
PharmacySatisfies(r, q) ==
    \A f \in DOMAIN q :
        IF f \in {"city", "state", "postal_code", "country"}
        THEN FieldEquals(r.address[f], q[f])
        ELSE FieldEquals(r[f], q[f])

\* C5: a list returns, in insertion order, exactly the stored records that
\* satisfy every supplied filter.
ListReturnsExactlyTheMatches ==
    [][/\ resp'.op = "list_addresses" =>
            \A q \in AddressQueries :
                list_addresses(Param(q, "street"), Param(q, "city"), Param(q, "state"),
                               Param(q, "postal_code"), Param(q, "country")) =>
                    resp'.body = SelectSeq(Values(addresses),
                                           LAMBDA r : AddressSatisfies(r, q))
       /\ resp'.op = "list_persons" =>
            \A q \in PersonQueries :
                list_persons(Param(q, "uni"), Param(q, "first_name"),
                             Param(q, "last_name"), Param(q, "email"),
                             Param(q, "phone"), Param(q, "birth_date"),
                             Param(q, "city"), Param(q, "country")) =>
                    resp'.body = SelectSeq(Values(persons),
                                           LAMBDA r : PersonSatisfies(r, q))
       /\ resp'.op = "list_insurances" =>
            \A q \in InsuranceQueries :
                list_insurances(Param(q, "provider"), Param(q, "policy_number"),
                                Param(q, "start_date"), Param(q, "end_date")) =>
                    resp'.body = SelectSeq(Values(insurances),
                                           LAMBDA r : InsuranceSatisfies(r, q))
       /\ resp'.op = "list_pharmacies" =>
            \A q \in PharmacyQueries :
                list_pharmacies(Param(q, "name"), Param(q, "license_number"),
                                Param(q, "phone"), Param(q, "city"), Param(q, "state"),
                                Param(q, "postal_code"), Param(q, "country")) =>
                    resp'.body = SelectSeq(Values(pharmacies),
                                           LAMBDA r : PharmacySatisfies(r, q))
      ]_vars

\* The requests that a step from the current state to the next one may be.
GetOfUnknown(op, store, get(_)) ==
    resp'.op = op /\ \E id \in PathIds : ~Has(store, id) /\ get(id)
PatchOfUnknown(op, store, bodies, ok(_), update(_, _)) ==
    resp'.op = op /\ \E id \in PathIds, b \in bodies :
                        ~Has(store, id) /\ ok(b) /\ update(id, b)

\* C6: a get or a PATCH of an identifier its store does not hold answers 404
\* (the PATCH body being one the Update schema takes) and changes no store.
UnknownIdentifierIsNotFound ==
    [][(resp'.status # 404 \/ stores' # stores) =>
        /\ ~GetOfUnknown("get_address", addresses, get_address)
        /\ ~GetOfUnknown("get_person", persons, get_person)
        /\ ~GetOfUnknown("get_insurance", insurances, get_insurance)
        /\ ~GetOfUnknown("get_pharmacy", pharmacies, get_pharmacy)
        /\ ~PatchOfUnknown("update_address", addresses, AddressUpdateBodies,
                           AddressUpdateOk, update_address)
        /\ ~PatchOfUnknown("update_person", persons, PersonUpdateBodies,
                           PersonUpdateOk, update_person)
        /\ ~PatchOfUnknown("update_insurance", insurances, InsuranceUpdateBodies,
                           InsuranceUpdateOk, update_insurance)
        /\ ~PatchOfUnknown("update_pharmacy", pharmacies, PharmacyUpdateBodies,
                           PharmacyUpdateOk, update_pharmacy)
      ]_vars

\* A PATCH missed while its store holds a record under another id.
PatchOfUnknownIdentifier ==
    /\ resp.op = "update_insurance" /\ resp.status = 404
    /\ insurances # <<>>

\* C7: an Address create whose id is a key of the store answers 400 and changes
\* nothing; with a new id it answers 201 and stores the body under that id.
DuplicateAddressIsConflict ==
    [][resp'.op = "create_address" =>
        \A b \in AddressCreateBodies :
            (AddressCreateOk(b) /\ create_address(b)) =>
                IF Has(addresses, b.id)
                THEN resp'.status = 400 /\ stores' = stores
                ELSE /\ resp'.status = 201
                     /\ Keys(addresses') = Keys(addresses) \cup {b.id}
                     /\ \A f \in AddressFields \cup {"id"} :
                            Lookup(addresses', b.id)[f] = b[f]
                     /\ \A k \in Keys(addresses) :
                            Lookup(addresses', k) = Lookup(addresses, k)
      ]_vars

\* A second create under a stored id was refused.
DuplicateAddressRefused ==
    /\ resp.op = "create_address" /\ resp.status = 400
    /\ addresses # <<>>

\* C8: a step that does not answer 200 or 201 changes no store; a step that
\* changes a store is one write of the returned record under its id; a PATCH
\* with an explicit null for provider or policy_number fails and changes nothing.
NoPartialFailure ==
    [][/\ resp'.status \notin {200, 201} => stores' = stores
       /\ stores' # stores =>
            /\ resp'.op \in CreateOps \cup UpdateOps
            /\ resp'.status \in {200, 201}
            /\ \E k \in 1..4 :
                /\ \A j \in (1..4) \ {k} : stores'[j] = stores[j]
                /\ stores'[k] = Assign(stores[k], resp'.body.id, resp'.body)
       /\ (resp'.op = "update_insurance" /\ resp'.status = 200) =>
            \A id \in PathIds, b \in InsuranceUpdateBodies :
                (\E f \in {"provider", "policy_number"} \cap DOMAIN b : b[f] = None)
                => ~update_insurance(id, b)
      ]_vars

\* A PATCH of a stored insurance failed after the Update schema took its body.
PatchFailedOnMergedRecord ==
    /\ resp.op = "update_insurance" /\ resp.status = 500
    /\ insurances # <<>>

\* 2-3 lowercase letters, then 1 to most digits, and nothing else.
LettersThenDigits(t, most) ==
    \E k \in 2..3, d \in 1..most :
        /\ Len(t) = k + d
        /\ \A i \in 1..k : t[i] \in Lower
        /\ \A i \in (k + 1)..(k + d) : t[i] \in Digit

StoredNumbersMatch ==
    /\ \A i \in 1..Len(insurances) :
            LettersThenDigits(insurances[i].val.policy_number.v, 6)
    /\ \A i \in 1..Len(pharmacies) :
            LettersThenDigits(pharmacies[i].val.license_number.v, 8)

\* What the service may answer to a body carrying the text t: a text of the
\* form is never refused, any other is always refused with no store written.
\* Created(a) and Patched(a) name the steps of a create a and of a PATCH a.
TakenOrRefused(t, most, Created(_), Patched(_, _)) ==
    IF LettersThenDigits(t, most)
    THEN /\ ~ENABLED (Created(t) /\ resp'.status # 201)
         /\ \A id \in PathIds : ~ENABLED (Patched(id, t) /\ resp'.status \notin {200, 404})
    ELSE /\ ~ENABLED (Created(t) /\ ~(resp'.status = 422 /\ stores' = stores))
         /\ \A id \in PathIds :
                ~ENABLED (Patched(id, t) /\ ~(resp'.status = 422 /\ stores' = stores))

\* C9: a create or PATCH is taken only with a policy_number of 2-3 lowercase
\* letters and 1-6 digits (license_number: 1-8 digits); every such text is
\* taken, every other is refused with no store written; so every stored number
\* has that form.
ConstrainedNumbersOnly ==
    /\ StoredNumbersMatch
    /\ \A t \in TextCandidates :
        /\ TakenOrRefused(t, 6,
                LAMBDA x : create_insurance(InsuranceWith(x)),
                LAMBDA id, x : update_insurance(id, Body([policy_number |-> S(x)])))
        /\ TakenOrRefused(t, 8,
                LAMBDA x : create_pharmacy(PharmacyWith(x)),
                LAMBDA id, x : update_pharmacy(id, Body([license_number |-> S(x)])))

\* A policy number of the greatest length is stored and a create was refused.
LongestPolicyStoredAndOneRefused ==
    /\ resp.op = "create_insurance" /\ resp.status = 422
    /\ \E i \in 1..Len(insurances) : Len(insurances[i].val.policy_number.v) = 9

KeysAreIds ==
    \A k \in 1..4 :
        \A i \in 1..Len(stores[k]) :
            /\ stores[k][i].key = stores[k][i].val.id
            /\ \A j \in 1..Len(stores[k]) :
                    i # j => stores[k][i].val.id # stores[k][j].val.id

\* C10: every entry's key is the id of its record and no two records of a store
\* share an id; a created Person, Insurance or Pharmacy is stored under an id
\* its store did not hold, a created Address under the body's id; a PATCH
\* leaves the keys as they were.
IdentifiersAreUnique ==
    [][stores' # stores =>
        /\ KeysAreIds'
        /\ (resp'.op = "create_person") =>
                ~Has(persons, resp'.body.id) /\ Lookup(persons', resp'.body.id) = resp'.body
        /\ (resp'.op = "create_insurance") =>
                /\ ~Has(insurances, resp'.body.id)
                /\ Lookup(insurances', resp'.body.id) = resp'.body
        /\ (resp'.op = "create_pharmacy") =>
                /\ ~Has(pharmacies, resp'.body.id)
                /\ Lookup(pharmacies', resp'.body.id) = resp'.body
        /\ (resp'.op = "create_address") =>
                \A b \in AddressCreateBodies :
                    create_address(b) =>
                        resp'.body.id = b.id /\ Lookup(addresses', b.id) = resp'.body
        /\ (resp'.op \in UpdateOps) =>
                \A k \in 1..4 : Keys(stores'[k]) = Keys(stores[k])
      ]_vars

\* A record of a store that holds two was patched.
PatchedOneOfTwo ==
    /\ resp.op = "update_insurance" /\ resp.status = 200
    /\ Len(insurances) = 2
    /\ insurances[1].val.id # insurances[2].val.id

ServerFields == {"id", "created_at", "updated_at"}

\* The store new is old with, under the id of thread t's request, the record
\* the thread read with exactly the fields of its payload replaced.
WrittenBy(t, old, new, fields) ==
    /\ Keys(new) = Keys(old)
    /\ \A k \in Keys(old) \ {requests[t].id} : Lookup(new, k) = Lookup(old, k)
    /\ DOMAIN Lookup(new, requests[t].id) = fields \cup ServerFields
    /\ \A f \in fields \cup ServerFields :
          Lookup(new, requests[t].id)[f] =
              IF f \in DOMAIN requests[t].update
              THEN requests[t].update[f] ELSE requests[t].read[f]

\* The store new is old with one record more.
Inserted(old, new) ==
    /\ Len(new) = Len(old) + 1
    /\ \A i \in 1..Len(old) : new[i] = old[i]

Assigning(t) == requests[t].pc = "assign" /\ requests'[t].pc = "return"

\* Every record of the store is a whole record of the resource.
Complete(store, fields, ok(_)) ==
    \A i \in 1..Len(store) :
        DOMAIN store[i].val = fields \cup ServerFields /\ ok(store[i].val)

\* C11: while PATCH requests interleave, a store changes only by a create
\* adding a record or by one thread's assignment, and that assignment leaves
\* under the id exactly the record that thread read with its own payload laid
\* over it, whatever another thread wrote there meanwhile; every stored record
\* is at every moment a whole record.
LastWriteWins ==
    [][/\ Complete(insurances', InsuranceFields, InsuranceReadOk)
       /\ Complete(persons', PersonFields, PersonReadOk)
       /\ stores' # stores =>
            \/ /\ requests' = requests
               /\ Inserted(insurances, insurances') \/ Inserted(persons, persons')
            \/ \E t \in Threads :
                /\ Assigning(t)
                /\ \A u \in Threads \ {t} : requests'[u] = requests[u]
                /\ IF requests[t].op = "update_insurance"
                   THEN /\ WrittenBy(t, insurances, insurances', InsuranceFields)
                        /\ persons' = persons
                   ELSE /\ WrittenBy(t, persons, persons', PersonFields)
                        /\ insurances' = insurances
       /\ \A t \in Threads :
            Assigning(t) =>
                IF requests[t].op = "update_insurance"
                THEN WrittenBy(t, insurances, insurances', InsuranceFields)
                ELSE WrittenBy(t, persons, persons', PersonFields)
      ]_vars

\* Two PATCH requests of one Insurance both read the same record and both
\* answered 200; the record stored has the payload of one and has lost the
\* other's change.
LostUpdate ==
    \E t, u \in Threads :
        /\ t # u
        /\ requests[t].pc = "done" /\ requests[u].pc = "done"
        /\ requests[t].status = 200 /\ requests[u].status = 200
        /\ requests[t].op = "update_insurance" /\ requests[u].op = "update_insurance"
        /\ requests[t].id = requests[u].id
        /\ requests[t].read = requests[u].read
        /\ \E f \in DOMAIN requests[t].update :
              Lookup(insurances, requests[t].id)[f] # requests[t].update[f]
        /\ \A f \in DOMAIN requests[u].update :
              /\ Lookup(insurances, requests[u].id)[f] = requests[u].update[f]
              /\ requests[u].read[f] # requests[u].update[f]

====
